---- MODULE Spec2Model ----
(***************************************************************************)
(* Content-based movie recommender (recommend.py): text preprocessing,     *)
(* TF-IDF fitting over unigrams and bigrams, cosine similarity and top-N   *)
(* selection.                                                              *)
(*                                                                         *)
(* A Python str is a sequence of one-character strings.  Real numbers are  *)
(* fixed-point integers: idf values carry one decimal digit (IdfTable),    *)
(* L2-normalised weights are multiples of 1/Scale.  Document indices are   *)
(* 1-based here (pandas row i is index i+1).                               *)
(***************************************************************************)
EXTENDS Integers, Sequences, FiniteSets

VARIABLES
    pc,              \* where main() stands
    overview,        \* df['overview']: one string per row (NaN before fillna)
    vocabulary_,     \* vectorizer.vocabulary_: term -> column (0-based)
    idf_,            \* vectorizer.idf_: column+1 -> idf (x10)
    tfidf_matrix,    \* one L2-normalised row per document
    user_query,      \* the raw query of the last get_recommendations call
    query_vec,       \* its vector (local of the last call)
    top_n,           \* its top_n
    recommendations, \* its result: sequence of [index, similarity]
    text,            \* preprocess_text harness: the argument
    result,          \* preprocess_text(text)
    again,           \* preprocess_text(result)
    npc              \* preprocess_text harness position

vars == <<pc, overview, vocabulary_, idf_, tfidf_matrix, user_query, query_vec,
          top_n, recommendations, text, result, again, npc>>

mainVars == <<pc, overview, vocabulary_, idf_, tfidf_matrix, user_query,
              query_vec, top_n, recommendations>>

normVars == <<text, result, again, npc>>

(***************************************************************************)
(* Bounds                                                                  *)
(***************************************************************************)
MaxDocs == 3

MaxTopN == 3

MaxLen == 4

Scale == 1000

(***************************************************************************)
(* Characters                                                              *)
(***************************************************************************)
\* ASCII order of the characters the model uses
CharOrder ==
    <<"\t", " ", "!", "A", "C", "_", "a", "b", "c", "d", "f", "o", "x", "z">>

Code(c) == CHOOSE i \in DOMAIN CharOrder : CharOrder[i] = c

\* str.lower on one character
lower_char(c) ==
    CASE c = "A" -> "a"
      [] c = "C" -> "c"
      [] OTHER -> c

\* regex class \w: alphanumerics and underscore
IsWordChar(c) == c \in {"A", "C", "_", "a", "b", "c", "d", "f", "o", "x", "z"}

\* regex class \s, and what str.strip removes
IsSpace(c) == c \in {"\t", " "}

Range(s) == {s[i] : i \in DOMAIN s}

(***************************************************************************)
(* preprocess_text                                                         *)
(***************************************************************************)
\* text.lower()
lower(s) == [i \in DOMAIN s |-> lower_char(s[i])]

\* re.sub(r'[^\w\s]', ' ', text): each such character becomes one space
re_sub(s) ==
    [i \in DOMAIN s |-> IF IsWordChar(s[i]) \/ IsSpace(s[i]) THEN s[i] ELSE " "]

RECURSIVE lstrip(_)
lstrip(s) ==
    IF s # <<>> /\ IsSpace(Head(s)) THEN lstrip(Tail(s)) ELSE s

RECURSIVE rstrip(_)
rstrip(s) ==
    IF s # <<>> /\ IsSpace(s[Len(s)])
    THEN rstrip(SubSeq(s, 1, Len(s) - 1))
    ELSE s

\* text.strip()
strip(s) == rstrip(lstrip(s))

\* mutant: strip before the substitution
preprocess_text_StripFirst(s) == re_sub(strip(lower(s)))

preprocess_text(s) == strip(re_sub(lower(s)))

(***************************************************************************)
(* TfidfVectorizer(stop_words='english', ngram_range=(1, 2)): analyzer     *)
(***************************************************************************)
\* token_pattern r"(?u)\b\w\w+\b": the maximal runs of word characters that
\* are at least two characters long.  cur is the run being read.
RECURSIVE word_runs(_, _)
word_runs(s, cur) ==
    IF s = <<>>
    THEN (IF Len(cur) >= 2 THEN <<cur>> ELSE <<>>)
    ELSE IF IsWordChar(Head(s))
         THEN word_runs(Tail(s), Append(cur, Head(s)))
         ELSE (IF Len(cur) >= 2 THEN <<cur>> ELSE <<>>) \o word_runs(Tail(s), <<>>)

tokenize(s) == word_runs(s, <<>>)

\* the members of sklearn's ENGLISH_STOP_WORDS that the model's characters
\* can spell
ENGLISH_STOP_WORDS ==
    {<<"a">>, <<"o", "f">>, <<"d", "o">>, <<"c", "o">>}

RECURSIVE remove_stop_words(_)
remove_stop_words(tokens) ==
    IF tokens = <<>> THEN <<>>
    ELSE IF Head(tokens) \in ENGLISH_STOP_WORDS
         THEN remove_stop_words(Tail(tokens))
         ELSE <<Head(tokens)>> \o remove_stop_words(Tail(tokens))

\* " ".join(tokens[i:i+2]) for every i
bigrams(tokens) ==
    [i \in 1..(IF Len(tokens) >= 2 THEN Len(tokens) - 1 ELSE 0) |->
        tokens[i] \o <<" ">> \o tokens[i + 1]]

\* mutant: n-grams are formed before the stop words are dropped
word_ngrams_StopAfter(tokens) ==
    remove_stop_words(tokens) \o bigrams(tokens)

\* _word_ngrams: stop words are dropped first, then unigrams and bigrams
word_ngrams(tokens) ==
    LET kept == remove_stop_words(tokens)
    IN  kept \o bigrams(kept)

\* build_analyzer: lowercase, tokenize, n-grams
analyze(doc) == word_ngrams(tokenize(lower(doc)))

Count(t, seq) == Cardinality({i \in DOMAIN seq : seq[i] = t})

(***************************************************************************)
(* fit: vocabulary, document frequency, idf                                *)
(***************************************************************************)
\* Python's str comparison
RECURSIVE LexLess(_, _)
LexLess(s, t) ==
    IF t = <<>> THEN FALSE
    ELSE IF s = <<>> THEN TRUE
    ELSE IF Head(s) = Head(t) THEN LexLess(Tail(s), Tail(t))
    ELSE Code(Head(s)) < Code(Head(t))

\* every term of every document
count_vocab(docs) == UNION {Range(analyze(docs[i])) : i \in DOMAIN docs}

\* mutant: an empty vocabulary is accepted
EmptyVocabulary_Accepted(terms) == FALSE

\* "empty vocabulary; perhaps the documents only contain stop words"
EmptyVocabulary(terms) == terms = {}

\* the terms sorted, each mapped to its rank (0-based)
sorted_vocabulary(terms) ==
    [t \in terms |-> Cardinality({u \in terms : LexLess(u, t)})]

TermAt(vocab, col) == CHOOSE t \in DOMAIN vocab : vocab[t] = col

NumTerms(vocab) == Cardinality(DOMAIN vocab)

document_frequency(docs, t) ==
    Cardinality({i \in DOMAIN docs : t \in Range(analyze(docs[i]))})

\* round(100 * (ln((1 + n) / (1 + df)) + 1)) at IdfTable[n][df]
IdfTable ==
    << <<100>>,
       <<141, 100>>,
       <<169, 129, 100>>,
       <<192, 151, 122, 100>>,
       <<210, 169, 141, 118, 100>> >>

\* mutant: idf without the "+ 1"
smooth_idf_NoPlusOne(n, df) == IdfTable[n][df] - 100

\* smooth idf: ln((1 + n) / (1 + df)) + 1
smooth_idf(n, df) == IdfTable[n][df]

fit_idf(docs, vocab) ==
    [j \in 1..NumTerms(vocab) |->
        smooth_idf(Len(docs), document_frequency(docs, TermAt(vocab, j - 1)))]

(***************************************************************************)
(* transform: tf * idf, L2-normalised                                      *)
(***************************************************************************)
RECURSIVE SumSeq(_)
SumSeq(s) == IF s = <<>> THEN 0 ELSE Head(s) + SumSeq(Tail(s))

Dot(a, b) == SumSeq([j \in DOMAIN a |-> a[j] * b[j]])

\* Newton's iteration downwards from x >= floor(sqrt(n)), x > 0
RECURSIVE ISqrtFrom(_, _)
ISqrtFrom(n, x) ==
    LET y == (x + n \div x) \div 2
    IN  IF y >= x THEN x ELSE ISqrtFrom(n, y)

\* floor of the square root
ISqrt(n) ==
    IF n = 0 THEN 0 ELSE ISqrtFrom(n, (Scale + n \div Scale) \div 2 + 1)

\* sklearn normalize(norm='l2'): a zero norm is replaced by 1
l2_normalize(v) ==
    LET norm == ISqrt(Dot(v, v))
    IN  [j \in DOMAIN v |-> IF norm = 0 THEN v[j] ELSE (v[j] * Scale) \div norm]

\* term counts of doc over the vocabulary's columns; other terms are ignored
term_counts(doc, vocab) ==
    LET terms == analyze(doc)
    IN  [j \in 1..NumTerms(vocab) |-> Count(TermAt(vocab, j - 1), terms)]

transform(doc, vocab, idf) ==
    LET tf == term_counts(doc, vocab)
    IN  l2_normalize([j \in DOMAIN tf |-> tf[j] * idf[j]])

(***************************************************************************)
(* cosine_similarity and the top-N selection                               *)
(***************************************************************************)
\* mutant: identical vectors are given similarity 1 without computing it
similarity_IdenticalIsOne(a, b) ==
    IF a = b THEN Scale * Scale ELSE Dot(l2_normalize(a), l2_normalize(b))

\* one entry of cosine_similarity: both sides are normalised, then multiplied
similarity(a, b) == Dot(l2_normalize(a), l2_normalize(b))

\* cosine_similarity(query_vec, tfidf_matrix).flatten()
cosine_similarity(qv, matrix) ==
    [i \in DOMAIN matrix |-> similarity(qv, matrix[i])]

\* the orders of n rows, for every corpus size
Permutations ==
    [n \in 0..MaxDocs |->
        {p \in [1..n -> 1..n] : \A i, j \in 1..n : i # j => p[i] # p[j]}]

\* cosine_sim.argsort(): numpy's default sort is not stable, so equal scores
\* may come out in any order
argsort(sim) ==
    {p \in Permutations[Len(sim)] :
        \A i, j \in 1..Len(sim) : i < j => sim[p[i]] <= sim[p[j]]}

Reverse(s) == [i \in DOMAIN s |-> s[Len(s) + 1 - i]]

\* s[-n:] for n >= 1
LastN(s, n) == IF n >= Len(s) THEN s ELSE SubSeq(s, Len(s) - n + 1, Len(s))

\* mutant: the slice is not reversed
top_indices_NotReversed(order, n) == LastN(order, n)

\* mutant: the slice is forgotten
top_indices_NoSlice(order, n) == Reverse(order)

\* cosine_sim.argsort()[-top_n:][::-1]
top_indices(order, n) == Reverse(LastN(order, n))

\* df.iloc[top_indices] with the 'similarity' column
select_rows(indices, sim) ==
    [k \in DOMAIN indices |-> [index |-> indices[k], similarity |-> sim[indices[k]]]]

(***************************************************************************)
(* Inputs                                                                  *)
(***************************************************************************)
\* a missing overview, as read_csv gives it
NaN == <<"NaN">>

\* overviews as read from the CSV
DocPool ==
    { NaN,
      <<"A", "b", " ", "o", "f", " ", "c", "d">>,
      <<"x", " ", "a", "b", "!", "!", "a", "b">>,
      <<"o", "f">> }

\* what the user types at the prompt
QueryPool ==
    { <<>>,
      <<"z", "_">>,
      <<"a", "b">>,
      <<"C", "d", " ", "o", "f", "\t", "a", "b", "!">> }

SeqsUpTo(S, n) == UNION {[1..k -> S] : k \in 0..n}

\* the characters preprocess_text is exercised on, one or two of each class
NormChars == {"A", "a", "_", "!", " ", "\t"}

(***************************************************************************)
(* main                                                                    *)
(***************************************************************************)
NormIdle == text = <<>> /\ result = <<>> /\ again = <<>> /\ npc = "idle"

\* load_dataset succeeded and both columns are present
Init ==
    /\ pc = "loaded"
    /\ overview \in SeqsUpTo(DocPool, MaxDocs)
    /\ vocabulary_ = <<>>
    /\ idf_ = <<>>
    /\ tfidf_matrix = <<>>
    /\ user_query = <<>>
    /\ query_vec = <<>>
    /\ top_n = 0
    /\ recommendations = <<>>
    /\ NormIdle

\* fillna('')
fillna(d) == IF d = NaN THEN <<>> ELSE d

\* df['overview'].fillna('').apply(preprocess_text)
Preprocess ==
    /\ pc = "loaded"
    /\ overview' = [i \in DOMAIN overview |-> preprocess_text(fillna(overview[i]))]
    /\ pc' = "preprocessed"
    /\ UNCHANGED <<vocabulary_, idf_, tfidf_matrix, user_query, query_vec, top_n,
                   recommendations>>
    /\ UNCHANGED normVars

\* build_tfidf_matrix: fit_transform, which raises on an empty vocabulary
Fit ==
    /\ pc = "preprocessed"
    /\ LET terms == count_vocab(overview)
           vocab == sorted_vocabulary(terms)
           idf == fit_idf(overview, vocab)
       IN  IF EmptyVocabulary(terms)
           THEN /\ pc' = "raised"
                /\ UNCHANGED <<vocabulary_, idf_, tfidf_matrix>>
           ELSE /\ pc' = "fitted"
                /\ vocabulary_' = vocab
                /\ idf_' = idf
                /\ tfidf_matrix' =
                       [i \in DOMAIN overview |-> transform(overview[i], vocab, idf)]
    /\ UNCHANGED <<overview, user_query, query_vec, top_n, recommendations>>
    /\ UNCHANGED normVars

\* the body of get_recommendations: the query is preprocessed and vectorised,
\* scored against every row, and the top n rows are returned; check_array
\* inside cosine_similarity raises when the matrix has no row
Rank ==
    \E query \in QueryPool :
        LET query_processed == preprocess_text(query)
            qv == transform(query_processed, vocabulary_, idf_)
            cosine_sim == cosine_similarity(qv, tfidf_matrix)
        IN  /\ user_query' = query
            /\ query_vec' = qv
            /\ \E n \in 1..MaxTopN :
                   /\ top_n' = n
                   /\ IF Len(tfidf_matrix) = 0
                      THEN /\ pc' = "raised"
                           /\ recommendations' = <<>>
                      ELSE /\ pc' = "served"
                           /\ \E order \in argsort(cosine_sim) :
                                  recommendations' =
                                      select_rows(top_indices(order, n), cosine_sim)

\* mutant: the query is vectorised with fit_transform, which refits the
\* vectorizer on the query
GetRecommendations_Refit ==
    /\ pc \in {"fitted", "printed"}
    /\ Rank
    /\ LET terms == count_vocab(<<preprocess_text(user_query')>>)
       IN  IF terms = {}
           THEN UNCHANGED <<vocabulary_, idf_>>
           ELSE /\ vocabulary_' = sorted_vocabulary(terms)
                /\ idf_' = [j \in 1..Cardinality(terms) |-> smooth_idf(1, 1)]
    /\ UNCHANGED <<overview, tfidf_matrix>>
    /\ UNCHANGED normVars

\* get_recommendations(user_query, df, tfidf_matrix, vectorizer, top_n); a
\* caller that serves several queries calls it again once a result is consumed
GetRecommendations ==
    /\ pc \in {"fitted", "printed"}
    /\ Rank
    /\ UNCHANGED <<overview, vocabulary_, idf_, tfidf_matrix>>
    /\ UNCHANGED normVars

\* the result is printed; the query, its vector and the result are dropped
PrintRecommendations ==
    /\ pc = "served"
    /\ pc' = "printed"
    /\ user_query' = <<>>
    /\ query_vec' = <<>>
    /\ top_n' = 0
    /\ recommendations' = <<>>
    /\ UNCHANGED <<overview, vocabulary_, idf_, tfidf_matrix>>
    /\ UNCHANGED normVars

Next == Preprocess \/ Fit \/ GetRecommendations \/ PrintRecommendations

Spec == Init /\ [][Next]_vars

(***************************************************************************)
(* preprocess_text on its own: every string over NormChars up to MaxLen    *)
(***************************************************************************)
MainIdle ==
    /\ pc = "idle"
    /\ overview = <<>>
    /\ vocabulary_ = <<>>
    /\ idf_ = <<>>
    /\ tfidf_matrix = <<>>
    /\ user_query = <<>>
    /\ query_vec = <<>>
    /\ top_n = 0
    /\ recommendations = <<>>

InitNorm ==
    /\ MainIdle
    /\ text \in SeqsUpTo(NormChars, MaxLen)
    /\ result = <<>>
    /\ again = <<>>
    /\ npc = "call"

NormOnce ==
    /\ npc = "call"
    /\ result' = preprocess_text(text)
    /\ npc' = "once"
    /\ UNCHANGED <<text, again>>
    /\ UNCHANGED mainVars

NormTwice ==
    /\ npc = "once"
    /\ again' = preprocess_text(result)
    /\ npc' = "twice"
    /\ UNCHANGED <<text, result>>
    /\ UNCHANGED mainVars

NextNorm == NormOnce \/ NormTwice

SpecNorm == InitNorm /\ [][NextNorm]_vars

(***************************************************************************)
(* Notions the properties are stated in                                    *)
(***************************************************************************)
Fitted == pc \in {"fitted", "served", "printed"}

\* str.split(): the maximal runs of non-whitespace characters
RECURSIVE split_runs(_, _)
split_runs(s, cur) ==
    IF s = <<>>
    THEN (IF cur # <<>> THEN <<cur>> ELSE <<>>)
    ELSE IF IsSpace(Head(s))
         THEN (IF cur # <<>> THEN <<cur>> ELSE <<>>) \o split_runs(Tail(s), <<>>)
         ELSE split_runs(Tail(s), Append(cur, Head(s)))

Words(doc) == split_runs(doc, <<>>)

Joined(w1, w2) == w1 \o <<" ">> \o w2

\* a word the vectorizer keeps: two characters or more, and no stop word
Kept(w) == Len(w) >= 2 /\ w \notin ENGLISH_STOP_WORDS

\* the terms of one document as the code forms them: the kept words, and the
\* pairs of kept words with only dropped words between them
TermsOf(doc) ==
    LET w == Words(doc)
    IN  {w[i] : i \in {k \in DOMAIN w : Kept(w[k])}}
        \cup {Joined(w[ij[1]], w[ij[2]]) :
                ij \in {p \in (DOMAIN w) \X (DOMAIN w) :
                    /\ p[1] < p[2]
                    /\ Kept(w[p[1]]) /\ Kept(w[p[2]])
                    /\ \A k \in (p[1] + 1)..(p[2] - 1) : ~Kept(w[k])}}

\* the terms of one document as the specification describes them: the words
\* that are no stop words, and every pair of adjacent words
DescribedTermsOf(doc) ==
    LET w == Words(doc)
    IN  {w[i] : i \in {k \in DOMAIN w : w[k] \notin ENGLISH_STOP_WORDS}}
        \cup {Joined(w[i], w[i + 1]) : i \in {k \in DOMAIN w : k + 1 \in DOMAIN w}}

QueryTerms == TermsOf(preprocess_text(user_query))

Min(a, b) == IF a <= b THEN a ELSE b

IsZero(v) == \A j \in DOMAIN v : v[j] = 0

(***************************************************************************)
(* Ranking                                                                 *)
(***************************************************************************)
ScoresAreTheRows ==
    \A k \in DOMAIN recommendations :
        recommendations[k].similarity =
            similarity(query_vec, tfidf_matrix[recommendations[k].index])

NonIncreasing ==
    \A k \in DOMAIN recommendations : k + 1 \in DOMAIN recommendations =>
        recommendations[k].similarity >= recommendations[k + 1].similarity

TiesAscending ==
    \A k, l \in DOMAIN recommendations :
        (k < l /\ recommendations[k].similarity = recommendations[l].similarity)
            => recommendations[k].index < recommendations[l].index

\* C1 (as stated): the returned results are in non-increasing order of
\* similarity, and results of equal similarity are in ascending order of
\* document index.
C1_OrderedTiesAscending ==
    pc = "served" => (ScoresAreTheRows /\ NonIncreasing /\ TiesAscending)

\* C1 (amended): the returned results carry their documents' similarities and
\* are in non-increasing order of similarity; nothing is said of equal scores.
C1_NonIncreasing ==
    pc = "served" => (ScoresAreTheRows /\ NonIncreasing)

\* a ranking with a strict descent followed by a tie
C1_Witness ==
    /\ pc = "served"
    /\ Len(recommendations) = 3
    /\ recommendations[1].similarity > recommendations[2].similarity
    /\ recommendations[2].similarity = recommendations[3].similarity

\* C2: the ranking returns exactly min(top_n, N) results, all of them
\* different documents; with top_n >= N these are all N documents.
C2_SizeBound ==
    pc = "served" =>
        /\ Len(recommendations) = Min(top_n, Len(overview))
        /\ \A k \in DOMAIN recommendations :
               recommendations[k].index \in DOMAIN overview
        /\ \A k, l \in DOMAIN recommendations :
               k # l => recommendations[k].index # recommendations[l].index
        /\ top_n >= Len(overview) =>
               {recommendations[k].index : k \in DOMAIN recommendations}
                   = DOMAIN overview

\* more results asked for than there are documents
C2_Witness ==
    /\ pc = "served"
    /\ Len(overview) = 2
    /\ top_n > Len(overview)
    /\ Len(recommendations) = 2

(***************************************************************************)
(* Vocabulary                                                              *)
(***************************************************************************)
\* C3 (as stated): the vocabulary is exactly the words that are no stop
\* words together with every pair of adjacent words of a document.
C3_AdjacentWordBigrams ==
    Fitted =>
        DOMAIN vocabulary_ = UNION {DescribedTermsOf(overview[i]) : i \in DOMAIN overview}

\* C3 (amended): the vocabulary is exactly the words of two or more
\* characters that are no stop words, together with every pair of such words
\* that are consecutive once the other words are removed; no term is a stop
\* word and no bigram contains one; the columns are the terms' ranks.
C3_Vocabulary ==
    Fitted =>
        /\ DOMAIN vocabulary_ = UNION {TermsOf(overview[i]) : i \in DOMAIN overview}
        /\ \A t \in DOMAIN vocabulary_ :
               \A w \in Range(Words(t)) : w \notin ENGLISH_STOP_WORDS
        /\ {vocabulary_[t] : t \in DOMAIN vocabulary_} = 0..(NumTerms(vocabulary_) - 1)

\* a bigram of two words that a stop word separated in the document
C3_Witness ==
    /\ Fitted
    /\ \E i \in DOMAIN overview :
           /\ overview[i] = <<"a", "b", " ", "o", "f", " ", "c", "d">>
           /\ <<"a", "b", " ", "c", "d">> \in DOMAIN vocabulary_
           /\ <<"a", "b", " ", "o", "f">> \notin DOMAIN vocabulary_

\* no word of any document is kept
NoTermSurvives ==
    \A i \in DOMAIN overview : \A k \in DOMAIN Words(overview[i]) :
        ~Kept(Words(overview[i])[k])

\* C5: fitting raises exactly when no term survives, and then leaves no
\* vocabulary, idf or matrix behind; otherwise it yields one row per document.
C5_EmptyVocabularyRaises ==
    pc \notin {"loaded", "preprocessed"} =>
        /\ (pc = "raised") <=> NoTermSurvives
        /\ pc = "raised" =>
               (vocabulary_ = <<>> /\ idf_ = <<>> /\ tfidf_matrix = <<>>)
        /\ pc # "raised" =>
               (DOMAIN vocabulary_ # {} /\ Len(tfidf_matrix) = Len(overview))

\* two empty overviews
C5_Witness ==
    /\ pc = "raised"
    /\ Len(overview) = 2
    /\ overview[1] = <<>>
    /\ overview[2] = <<>>

(***************************************************************************)
(* Vectors                                                                 *)
(***************************************************************************)
\* C6: a query none of whose terms is in the vocabulary is served without an
\* error, its vector is all zero, and every returned similarity is 0.
C6_OutOfVocabulary ==
    (/\ pc \in {"served", "raised"}
     /\ DOMAIN vocabulary_ # {}
     /\ QueryTerms \cap DOMAIN vocabulary_ = {}) =>
        /\ pc = "served"
        /\ Len(query_vec) = NumTerms(vocabulary_)
        /\ IsZero(query_vec)
        /\ \A k \in DOMAIN recommendations : recommendations[k].similarity = 0

\* a non-empty out-of-vocabulary query ranked against a corpus that holds a
\* zero row
C6_Witness ==
    /\ pc = "served"
    /\ QueryTerms # {}
    /\ QueryTerms \cap DOMAIN vocabulary_ = {}
    /\ Len(recommendations) >= 2
    /\ \E k \in DOMAIN recommendations :
           IsZero(tfidf_matrix[recommendations[k].index])

\* the results get_recommendations can return for the last query
PossibleResults ==
    LET qv == transform(preprocess_text(user_query), vocabulary_, idf_)
        cosine_sim == cosine_similarity(qv, tfidf_matrix)
    IN  {select_rows(top_indices(order, top_n), cosine_sim) :
            order \in argsort(cosine_sim)}

\* C7: once fitted, no step changes the vocabulary, the idf values, the
\* matrix or the documents, and every result is a result of the model as
\* fitted for the query asked.
C7_ModelFrozen ==
    /\ [][Fitted => UNCHANGED <<vocabulary_, idf_, tfidf_matrix, overview>>]_vars
    /\ [](pc = "served" => recommendations \in PossibleResults)

\* a served query with a term the vocabulary does not hold
C7_Witness ==
    /\ pc = "served"
    /\ QueryTerms \cap DOMAIN vocabulary_ # {}
    /\ QueryTerms \ DOMAIN vocabulary_ # {}

\* v has no negative weight, and a positive one exactly at the terms of source
SupportIs(v, source) ==
    /\ Len(v) = NumTerms(vocabulary_)
    /\ \A j \in DOMAIN v :
           /\ v[j] >= 0
           /\ v[j] > 0 <=> TermAt(vocabulary_, j - 1) \in TermsOf(source)

\* C8: every row of the matrix and every query vector is non-negative, and
\* positive exactly at the vocabulary terms of its own text.
C8_Support ==
    Fitted =>
        /\ \A i \in DOMAIN tfidf_matrix : SupportIs(tfidf_matrix[i], overview[i])
        /\ pc = "served" => SupportIs(query_vec, preprocess_text(user_query))

\* a query with known and unknown terms, and a row with a zero and a
\* positive weight
C8_Witness ==
    /\ pc = "served"
    /\ QueryTerms \cap DOMAIN vocabulary_ # {}
    /\ QueryTerms \ DOMAIN vocabulary_ # {}
    /\ \E i \in DOMAIN tfidf_matrix :
           /\ \E j \in DOMAIN tfidf_matrix[i] : tfidf_matrix[i][j] = 0
           /\ \E j \in DOMAIN tfidf_matrix[i] : tfidf_matrix[i][j] > 0

\* C9: with an empty corpus the run does not end in an error, and what is
\* served is the empty sequence.
C9_EmptyCorpusReturnsEmpty ==
    (Len(overview) = 0 /\ pc \notin {"loaded", "preprocessed"}) =>
        (pc # "raised" /\ recommendations = <<>>)

(***************************************************************************)
(* Normalisation                                                           *)
(***************************************************************************)
IsPunct(c) == ~IsWordChar(c) /\ ~IsSpace(c)

\* every maximal run of punctuation replaced by one space
RECURSIVE CollapseRuns(_, _)
CollapseRuns(s, inRun) ==
    IF s = <<>> THEN <<>>
    ELSE IF IsPunct(Head(s))
         THEN (IF inRun THEN <<>> ELSE <<" ">>) \o CollapseRuns(Tail(s), TRUE)
         ELSE <<Head(s)>> \o CollapseRuns(Tail(s), FALSE)

\* C4: the result is the lowercased text with every maximal run of
\* punctuation replaced by exactly one space, trimmed at both ends.
C4_RunsBecomeOneSpace ==
    npc # "call" => result = strip(CollapseRuns(lower(text), FALSE))

\* C10: preprocessing a preprocessed text changes nothing, and a text of
\* punctuation and whitespace only becomes the empty string.
C10_Idempotent ==
    /\ npc = "twice" => again = result
    /\ (npc # "call" /\ \A i \in DOMAIN text : ~IsWordChar(text[i])) => result = <<>>

\* a text that preprocessing changes without emptying it
C10_Witness ==
    /\ npc = "twice"
    /\ result # <<>>
    /\ result # text
    /\ \E i \in DOMAIN text : IsPunct(text[i])

====
